---- MODULE Spec2Model ----
(***************************************************************************)
(* Model of the game logic of hex-minesweeper (src/main.rs): the HexGrid   *)
(* resource built by `setup`, the CursorPos resource written by            *)
(* `update_cursor_pos`, and the `handle_input` system (flag toggle,        *)
(* reveal, flood fill).  Rendering (entities' children, materials,         *)
(* sprites, the highlight hex) is not modelled.                            *)
(*                                                                         *)
(* A Hex is the axial pair <<x, y>>.  Option<Hex> is None or a Hex.        *)
(***************************************************************************)
EXTENDS Integers, Sequences, FiniteSets

\* const GRID_RADIUS: u32 = 16 in the source; scaled down so that the boards
\* can be enumerated exhaustively.
GRID_RADIUS == 1

\* `index % 6 == 0` in the mine filter of setup.
MINE_STEP == 6

\* Width of the u8 counters of HexGrid::numbers.
U8 == 256

\* Largest radius for which the cell set of shapes::hexagon is compared with
\* the cube length test.
MaxRadius == 3

\* How far outside the grid the cursor can point (in hexes): the window is
\* larger than the grid, so world_pos_to_hex can return hexes off the board.
CursorMargin == 1

\* Number of frames (handle_input calls) explored.
MaxFrames == 3

None == << >>

Abs(n) == IF n < 0 THEN -n ELSE n

Max2(a, b) == IF a >= b THEN a ELSE b

Min2(a, b) == IF a <= b THEN a ELSE b

\* Hex::ulength: distance from the origin in hex steps.
ulength(hex) == (Abs(hex[1]) + Abs(hex[2]) + Abs(hex[1] + hex[2])) \div 2

\* Mutant: the bound test is off by one ring.
is_hex_within_grid_off_by_one(hex) == ulength(hex) <= GRID_RADIUS + 1

is_hex_within_grid(hex) == ulength(hex) <= GRID_RADIUS

\* Hex::ring(1): the six neighbours of a hex, in the library's fixed order.
NEIGHBORS_COORDS ==
    << <<1, 0>>, <<1, -1>>, <<0, -1>>, <<-1, 0>>, <<-1, 1>>, <<0, 1>> >>

ring1(hex) ==
    [i \in 1..6 |-> <<hex[1] + NEIGHBORS_COORDS[i][1], hex[2] + NEIGHBORS_COORDS[i][2]>>]

Range(s) == {s[i] : i \in DOMAIN s}

\* Mutant: the second coordinate ranges over the whole square.
hexagon_square(radius) ==
    UNION {{<<x, y>> : y \in -radius..radius} : x \in -radius..radius}

\* shapes::hexagon(Hex::ZERO, radius): the keys of HexGrid::entities.
hexagon(radius) ==
    UNION {{<<x, y>> : y \in Max2(-radius, -x - radius)..Min2(radius, -x + radius)} :
             x \in -radius..radius}

(***************************************************************************)
(* setup: mines                                                            *)
(***************************************************************************)
\* The indexes kept by `.enumerate().filter(|(index, _)| index % 6 == 0)`.
MineIndexes(n) == {i \in 0..(n - 1) : i % MINE_STEP = 0}

\* entities.keys() enumerates a hash map: the order is unspecified, so the
\* keys found at the kept indexes are any set of that many cells.
MinePlacements(cells) ==
    {m \in SUBSET cells : Cardinality(m) = Cardinality(MineIndexes(Cardinality(cells)))}

(***************************************************************************)
(* setup: numbers                                                          *)
(***************************************************************************)
\* The accumulator HashMap<Hex, u8> of the fold, as a function on every hex
\* that can be a neighbour of a cell; Vacant marks a key that is not in the
\* map.
Vacant == -1

EmptyMap == [h \in hexagon(GRID_RADIUS + 1) |-> Vacant]

Keys(acc) == {h \in DOMAIN acc : acc[h] # Vacant}

\* Mutant: the counter starts at 1 (the count itself, not count - 1).
CountEntryFromOne(acc, hex) ==
    [acc EXCEPT ![hex] = IF @ = Vacant THEN 1 ELSE (@ + 1) % U8]

\* acc.entry(hex).and_modify(|count| *count += 1).or_insert(0)
CountEntry(acc, hex) ==
    [acc EXCEPT ![hex] = IF @ = Vacant THEN 0 ELSE (@ + 1) % U8]

\* Mutant: the last neighbour of the ring is not counted.
RECURSIVE CountRingSkipsLast(_, _, _)
CountRingSkipsLast(acc, ring, i) ==
    IF i >= Len(ring) THEN acc
    ELSE CountRingSkipsLast(CountEntry(acc, ring[i]), ring, i + 1)

\* hex.ring(1).for_each(|hex| ...) for one mine
RECURSIVE CountRing(_, _, _)
CountRing(acc, ring, i) ==
    IF i > Len(ring) THEN acc ELSE CountRing(CountEntry(acc, ring[i]), ring, i + 1)

\* mines.iter().fold(HashMap::with_capacity(..), ...)
RECURSIVE CountNeighborMines(_, _)
CountNeighborMines(acc, mines) ==
    IF mines = {} THEN acc
    ELSE LET hex == CHOOSE m \in mines : TRUE
         IN  CountNeighborMines(CountRing(acc, ring1(hex), 1), mines \ {hex})

\* Mutant: the filter that drops the mines is missing.
FilterNumbersKeepMines(acc, mines) ==
    [h \in {k \in Keys(acc) : is_hex_within_grid(k)} |-> acc[h]]

\* .filter(|(hex, _)| !mines.contains(hex)).filter(|(hex, _)| is_hex_within_grid(hex))
FilterNumbers(acc, mines) ==
    [h \in {k \in Keys(acc) : k \notin mines /\ is_hex_within_grid(k)} |-> acc[h]]

Numbers(mines) == FilterNumbers(CountNeighborMines(EmptyMap, mines), mines)

(***************************************************************************)
(* load_sprites                                                            *)
(***************************************************************************)
\* numbers: [SpriteBundle; 6]
NUMBER_SPRITES == 6

\* Sprites::numbers, as the number each texture shows: `(1..=6).enumerate()`
\* puts "{i}.png" of the i-th number at index i - 1.
NumberSprites == [index \in 0..(NUMBER_SPRITES - 1) |-> index + 1]

(***************************************************************************)
(* handle_input: flag toggle                                               *)
(***************************************************************************)
\* Mutant: the entry is always inserted, never removed.
ToggleFlagInsertOnly(flagged, hex) == flagged \cup {hex}

\* match grid.flagged.entry(curr_hex) { Occupied => remove, Vacant => insert }
ToggleFlag(flagged, hex) ==
    IF hex \in flagged THEN flagged \ {hex} ELSE flagged \cup {hex}

\* Mutant: the `covered.contains` test of the flag toggle is missing.
RightClickAnyCell(flagged, covered, hex, pressed) ==
    IF "Right" \in pressed THEN ToggleFlag(flagged, hex) ELSE flagged

\* if buttons.just_pressed(MouseButton::Right) && grid.covered.contains(&curr_hex)
RightClick(flagged, covered, hex, pressed) ==
    IF "Right" \in pressed /\ hex \in covered THEN ToggleFlag(flagged, hex) ELSE flagged

\* Mutant: the `!flagged.contains` test of the reveal is missing.
LeftClickFiresIgnoringFlag(flagged, covered, hex, pressed) ==
    /\ "Left" \in pressed
    /\ hex \in covered

\* The guard of the reveal, evaluated after the flag toggle of the same call.
LeftClickFires(flagged, covered, hex, pressed) ==
    /\ "Left" \in pressed
    /\ hex \notin flagged
    /\ hex \in covered

(***************************************************************************)
(* handle_input: flood fill                                                *)
(***************************************************************************)
\* Mutant: the `visited.insert` filter is missing, a neighbour is pushed
\* whether or not it was visited before.
RECURSIVE ExpandBufferNoVisitedTest(_, _, _, _, _)
ExpandBufferNoVisitedTest(numberKeys, visited, buffer, k, out) ==
    IF k >= 6 * Len(buffer) THEN [visited |-> visited, buffer |-> out]
    ELSE LET neighbor == ring1(buffer[(k \div 6) + 1])[(k % 6) + 1]
         IN  IF ~is_hex_within_grid(neighbor)
             THEN ExpandBufferNoVisitedTest(numberKeys, visited, buffer, k + 1, out)
             ELSE IF neighbor \in numberKeys
             THEN ExpandBufferNoVisitedTest(numberKeys, visited \cup {neighbor}, buffer,
                                            k + 1, out)
             ELSE ExpandBufferNoVisitedTest(numberKeys, visited \cup {neighbor}, buffer,
                                            k + 1, Append(out, neighbor))

\* Mutant: the numbers filter runs before `visited.insert`, so a numbered
\* neighbour is never visited.
RECURSIVE ExpandBufferSkipsNumbers(_, _, _, _, _)
ExpandBufferSkipsNumbers(numberKeys, visited, buffer, k, out) ==
    IF k >= 6 * Len(buffer) THEN [visited |-> visited, buffer |-> out]
    ELSE LET neighbor == ring1(buffer[(k \div 6) + 1])[(k % 6) + 1]
         IN  IF \/ ~is_hex_within_grid(neighbor)
                \/ neighbor \in numberKeys
                \/ neighbor \in visited
             THEN ExpandBufferSkipsNumbers(numberKeys, visited, buffer, k + 1, out)
             ELSE ExpandBufferSkipsNumbers(numberKeys, visited \cup {neighbor}, buffer,
                                           k + 1, Append(out, neighbor))

\* One pass of the iterator chain over buffer.flat_map(ring): element k
\* (counted from 0) is neighbour (k % 6) + 1 of buffer[(k \div 6) + 1].
\* `visited.insert` runs only for neighbours within the grid, and the
\* neighbour goes to the next buffer only if it was new and is not a number.
RECURSIVE ExpandBuffer(_, _, _, _, _)
ExpandBuffer(numberKeys, visited, buffer, k, out) ==
    IF k >= 6 * Len(buffer) THEN [visited |-> visited, buffer |-> out]
    ELSE LET neighbor == ring1(buffer[(k \div 6) + 1])[(k % 6) + 1]
         IN  IF ~is_hex_within_grid(neighbor)
             THEN ExpandBuffer(numberKeys, visited, buffer, k + 1, out)
             ELSE IF neighbor \in visited
             THEN ExpandBuffer(numberKeys, visited, buffer, k + 1, out)
             ELSE IF neighbor \in numberKeys
             THEN ExpandBuffer(numberKeys, visited \cup {neighbor}, buffer, k + 1, out)
             ELSE ExpandBuffer(numberKeys, visited \cup {neighbor}, buffer, k + 1,
                               Append(out, neighbor))

\* Mutant: `if` instead of `while`: the buffer is expanded once.
FloodLoopOnePass(numberKeys, visited, buffer) ==
    IF buffer = << >> THEN visited
    ELSE ExpandBuffer(numberKeys, visited, buffer, 0, << >>).visited

\* while !buffer.is_empty() { buffer = ... }
RECURSIVE FloodLoop(_, _, _)
FloodLoop(numberKeys, visited, buffer) ==
    IF buffer = << >> THEN visited
    ELSE LET r == ExpandBuffer(numberKeys, visited, buffer, 0, << >>)
         IN  FloodLoop(numberKeys, r.visited, r.buffer)

\* let mut visited = HashSet::from([curr_hex]); let mut buffer = vec![curr_hex];
FloodFill(numberKeys, curr_hex) == FloodLoop(numberKeys, {curr_hex}, <<curr_hex>>)

\* Mutant: the `!flagged.contains` test of the uncover loop is missing.
UncoverVisitedIgnoringFlags(covered, flagged, vis) == covered \ vis

\* Mutant: the uncover loop flips membership instead of removing.
UncoverVisitedToggling(covered, flagged, vis) ==
    LET unflagged == {hex \in vis : hex \notin flagged}
    IN  (covered \ unflagged) \cup (unflagged \ covered)

\* for hex in visited { if !grid.flagged.contains(&hex) { grid.covered.remove(&hex); } }
UncoverVisited(covered, flagged, vis) == covered \ {hex \in vis : hex \notin flagged}

\* Mutant: the `numbers.get` branch is missing, a numbered cell flood fills.
RevealAlwaysFloods(cov, flg, mns, nums, curr_hex) ==
    IF curr_hex \in mns
    THEN [covered |-> cov \ {curr_hex}, visited |-> {}]
    ELSE LET vis == FloodFill(DOMAIN nums, curr_hex)
         IN  [covered |-> UncoverVisited(cov, flg, vis) \ {curr_hex}, visited |-> vis]

\* The body of `if buttons.just_pressed(MouseButton::Left) && ...`: what the
\* reveal does to `covered`, and the `visited` set when it flood fills.
Reveal(cov, flg, mns, nums, curr_hex) ==
    IF curr_hex \in mns
    THEN [covered |-> cov \ {curr_hex}, visited |-> {}]
    ELSE IF curr_hex \in DOMAIN nums
    THEN [covered |-> cov \ {curr_hex}, visited |-> {}]
    ELSE LET vis == FloodFill(DOMAIN nums, curr_hex)
         IN  [covered |-> UncoverVisited(cov, flg, vis) \ {curr_hex}, visited |-> vis]

\* Mutant: input is frozen once a mine is uncovered.
handle_input_frozen_after_loss(cov, flg, mns, nums, cursor, pressed) ==
    IF cursor = None \/ ~(mns \subseteq cov)
    THEN [covered |-> cov, flagged |-> flg, visited |-> {}]
    ELSE LET flagged1 == RightClick(flg, cov, cursor, pressed)
         IN  IF LeftClickFires(flagged1, cov, cursor, pressed)
             THEN LET r == Reveal(cov, flagged1, mns, nums, cursor)
                  IN  [covered |-> r.covered, flagged |-> flagged1, visited |-> r.visited]
             ELSE [covered |-> cov, flagged |-> flagged1, visited |-> {}]

\* Mutant: the reveal drops the flags of the cells its flood fill visited.
handle_input_unflags_visited(cov, flg, mns, nums, cursor, pressed) ==
    IF cursor = None
    THEN [covered |-> cov, flagged |-> flg, visited |-> {}]
    ELSE LET flagged1 == RightClick(flg, cov, cursor, pressed)
         IN  IF LeftClickFires(flagged1, cov, cursor, pressed)
             THEN LET r == Reveal(cov, flagged1, mns, nums, cursor)
                  IN  [covered |-> r.covered, flagged |-> flagged1 \ r.visited,
                       visited |-> r.visited]
             ELSE [covered |-> cov, flagged |-> flagged1, visited |-> {}]

\* Mutant: the reveal block stands before the flag toggle block.
handle_input_reveal_first(cov, flg, mns, nums, cursor, pressed) ==
    IF cursor = None
    THEN [covered |-> cov, flagged |-> flg, visited |-> {}]
    ELSE LET fires == LeftClickFires(flg, cov, cursor, pressed)
             r == IF fires THEN Reveal(cov, flg, mns, nums, cursor)
                  ELSE [covered |-> cov, visited |-> {}]
         IN  [covered |-> r.covered,
              flagged |-> RightClick(flg, r.covered, cursor, pressed),
              visited |-> r.visited]

\* handle_input as a function of the grid, the cursor and the pressed buttons.
handle_input(cov, flg, mns, nums, cursor, pressed) ==
    IF cursor = None
    THEN [covered |-> cov, flagged |-> flg, visited |-> {}]
    ELSE LET flagged1 == RightClick(flg, cov, cursor, pressed)
         IN  IF LeftClickFires(flagged1, cov, cursor, pressed)
             THEN LET r == Reveal(cov, flagged1, mns, nums, cursor)
                  IN  [covered |-> r.covered, flagged |-> flagged1, visited |-> r.visited]
             ELSE [covered |-> cov, flagged |-> flagged1, visited |-> {}]

(***************************************************************************)
(* State                                                                   *)
(***************************************************************************)
VARIABLES
    entities,    \* HexGrid::entities (its keys)
    covered,     \* HexGrid::covered
    numbers,     \* HexGrid::numbers
    mines,       \* HexGrid::mines
    flagged,     \* HexGrid::flagged
    cursor_pos,  \* CursorPos.0
    buttons,     \* Input<MouseButton>: the buttons just pressed in the frame of
                 \* the latest handle_input call
    visited,     \* the `visited` local of the latest handle_input call ({} when
                 \* the call did not flood fill)
    frames,      \* number of handle_input calls (frames) so far
    buffer,      \* the `buffer` local of the flood fill (<< >> outside the loop)
    pushed       \* every hex put in `buffer` since the flood fill began, in order

vars == <<entities, covered, numbers, mines, flagged, cursor_pos, buttons, visited, frames,
          buffer, pushed>>

Pressed == SUBSET {"Left", "Right"}

\* What GRID_LAYOUT.world_pos_to_hex can return for a cursor in the window.
CursorHexes == hexagon(GRID_RADIUS + CursorMargin)

\* The HexGrid inserted by setup for a given mine set.
SetupGrid(m) ==
    /\ entities = hexagon(GRID_RADIUS)
    /\ mines = m
    /\ numbers = Numbers(m)
    /\ covered = hexagon(GRID_RADIUS)
    /\ flagged = {}
    /\ cursor_pos = None
    /\ buttons = {}
    /\ visited = {}
    /\ frames = 0
    /\ buffer = << >>
    /\ pushed = << >>

Init == \E m \in MinePlacements(hexagon(GRID_RADIUS)) : SetupGrid(m)

\* The same setup with the mine rule replaced by an arbitrary one: any subset
\* of the cells (the rule in the source is a placeholder, `todo: add random`).
InitAnyMines == \E m \in SUBSET hexagon(GRID_RADIUS) : SetupGrid(m)

\* update_cursor_pos: `window` is None when the cursor is outside the window.
\* It runs in the frames that are explored, like handle_input.
UpdateCursorPos ==
    /\ frames < MaxFrames
    /\ \E window \in {None} \cup CursorHexes :
         cursor_pos' = IF window = None THEN None
                       ELSE IF is_hex_within_grid(window) THEN window ELSE None
    /\ UNCHANGED <<entities, covered, numbers, mines, flagged, buttons, visited, frames,
                   buffer, pushed>>

\* handle_input, one call per frame; `pressed` is what just_pressed reports.
HandleInput ==
    \E pressed \in Pressed :
      /\ frames < MaxFrames
      /\ frames' = frames + 1
      /\ buttons' = pressed
      /\ LET r == handle_input(covered, flagged, mines, numbers, cursor_pos, pressed)
         IN  /\ covered' = r.covered
             /\ flagged' = r.flagged
             /\ visited' = r.visited
      /\ UNCHANGED <<entities, numbers, mines, cursor_pos, buffer, pushed>>

Next == UpdateCursorPos \/ HandleInput

Spec == Init /\ [][Next]_vars

SpecAnyMines == InitAnyMines /\ [][Next]_vars

(***************************************************************************)
(* The flood fill of handle_input, one pass of its `while` loop per step.  *)
(***************************************************************************)
\* The cells a reveal flood fills from: not a mine, not a number.
BlankCells(cells, mns, nums) == {hex \in cells : hex \notin mns /\ hex \notin DOMAIN nums}

\* handle_input in its first call, with the left button pressed on a blank
\* cell, just after `visited` and `buffer` are created (any mine set).
InitFlood ==
    \E m \in SUBSET hexagon(GRID_RADIUS) :
      \E seed \in BlankCells(hexagon(GRID_RADIUS), m, Numbers(m)) :
        /\ entities = hexagon(GRID_RADIUS)
        /\ mines = m
        /\ numbers = Numbers(m)
        /\ covered = hexagon(GRID_RADIUS)
        /\ flagged = {}
        /\ cursor_pos = seed
        /\ buttons = {"Left"}
        /\ visited = {seed}
        /\ frames = 0
        /\ buffer = <<seed>>
        /\ pushed = <<seed>>

\* One iteration of `while !buffer.is_empty() { buffer = ... }`.
FloodStep ==
    /\ frames = 0
    /\ buffer # << >>
    /\ LET r == ExpandBuffer(DOMAIN numbers, visited, buffer, 0, << >>)
       IN  /\ visited' = r.visited
           /\ buffer' = r.buffer
           /\ pushed' = pushed \o r.buffer
    /\ UNCHANGED <<entities, covered, numbers, mines, flagged, cursor_pos, buttons, frames>>

\* The loop has ended: `for hex in visited { ... }` and the final
\* `grid.covered.remove(&curr_hex)`; the call returns.
FloodUncover ==
    /\ frames = 0
    /\ buffer = << >>
    /\ covered' = UncoverVisited(covered, flagged, visited) \ {cursor_pos}
    /\ frames' = 1
    /\ UNCHANGED <<entities, numbers, mines, flagged, cursor_pos, buttons, visited,
                   buffer, pushed>>

NextFlood == FloodStep \/ FloodUncover

\* The loop is sequential code: it keeps running until it ends.
SpecFlood == InitFlood /\ [][NextFlood]_vars /\ WF_vars(NextFlood)

(***************************************************************************)
(* Properties                                                              *)
(***************************************************************************)
\* A step that is one call of handle_input; it reads cursor_pos and the
\* buttons recorded in buttons'.
HandleInputStep == frames' = frames + 1

\* The neighbours of a hex that are cells of the board.
GridNeighbors(hex) == {n \in Range(ring1(hex)) : n \in entities}

\* Number of mines among the six neighbours of a hex.
NeighborMines(hex) == Cardinality({i \in 1..6 : ring1(hex)[i] \in mines})

\* C1: in every reachable state flagged is a subset of covered (and covered of
\* the cells), so a cell is exactly one of Covered-unflagged, Covered-flagged,
\* Uncovered.
FlaggedSubsetCovered ==
    /\ flagged \subseteq covered
    /\ covered \subseteq entities

\* A flood fill ran over a flagged cell and uncovered other cells.
FlaggedSubsetCoveredWitness ==
    /\ visited \cap flagged # {}
    /\ covered # entities

\* C2: covered starts as the full cell set and every step leaves it a subset
\* of what it was.
CoveredOnlyShrinks ==
    /\ covered = entities
    /\ [][covered' \subseteq covered]_vars

\* Cells were uncovered, a flag is set and a further call was made.
CoveredOnlyShrinksWitness ==
    /\ Cardinality(covered) + 2 <= Cardinality(entities)
    /\ flagged # {}
    /\ frames >= 3

\* C3: the visited set of a flood fill from a blank seed holds no mine and no
\* hex farther than GRID_RADIUS from the origin.
FloodAvoidsMinesAndOutside ==
    /\ visited \cap mines = {}
    /\ \A hex \in visited : ulength(hex) <= GRID_RADIUS

\* A flood fill on a board with mines that reached the numbered boundary.
FloodAvoidsMinesAndOutsideWitness ==
    /\ mines # {}
    /\ visited \cap DOMAIN numbers # {}
    /\ Cardinality(visited) >= 4

\* C4: a reveal (left button alone) of a covered, unflagged numbered cell
\* removes exactly that cell from covered, leaves flagged alone and runs no
\* flood fill.
RevealNumberedUncoversOne ==
    [][(/\ HandleInputStep
        /\ buttons' = {"Left"}
        /\ cursor_pos \in DOMAIN numbers
        /\ cursor_pos \in covered
        /\ cursor_pos \notin flagged)
       => (/\ covered' = covered \ {cursor_pos}
           /\ flagged' = flagged
           /\ visited' = {})]_vars

\* The first call revealed a numbered cell and only that cell is uncovered.
RevealNumberedUncoversOneWitness ==
    /\ frames = 1
    /\ buttons = {"Left"}
    /\ cursor_pos \in DOMAIN numbers
    /\ covered = entities \ {cursor_pos}

\* C5: illegal actions change neither covered nor flagged: any call with no
\* hovered cell (the cursor is absent or off the board, which CursorPos
\* holds as None), any call on an uncovered cell, and a reveal of a flagged
\* cell.
IllegalActionsAreNoOps ==
    /\ [](cursor_pos # None => ulength(cursor_pos) <= GRID_RADIUS)
    /\ [][HandleInputStep =>
            /\ (cursor_pos = None => UNCHANGED <<covered, flagged>>)
            /\ (cursor_pos # None /\ cursor_pos \notin covered
                  => UNCHANGED <<covered, flagged>>)
            /\ (cursor_pos \in flagged /\ buttons' = {"Left"}
                  => UNCHANGED <<covered, flagged>>)]_vars

\* A cell was flagged and then a reveal was tried on it: it is still covered
\* and flagged.
IllegalActionsAreNoOpsWitness ==
    /\ frames = 2
    /\ buttons = {"Left"}
    /\ cursor_pos \in flagged
    /\ cursor_pos \in covered
    /\ covered = entities

BlankRevealUncoversUnflaggedFlood ==
    [][(/\ HandleInputStep
        /\ buttons' = {"Left"}
        /\ cursor_pos # None
        /\ cursor_pos \in covered
        /\ cursor_pos \notin flagged
        /\ cursor_pos \notin mines
        /\ cursor_pos \notin DOMAIN numbers)
       => (/\ flagged' = flagged
           /\ cursor_pos \in visited'
           /\ covered' = covered \ (visited' \ flagged)
           /\ \A hex \in visited' :
                hex \notin DOMAIN numbers => GridNeighbors(hex) \subseteq visited')]_vars

\* A flood fill passed a flagged blank cell: the cell is still covered and
\* flagged, and a cell behind it, not adjacent to the seed, is uncovered.
BlankRevealUncoversUnflaggedFloodWitness ==
    /\ buttons = {"Left"}
    /\ cursor_pos \in visited
    /\ \E hex \in visited \cap flagged :
         /\ hex \notin DOMAIN numbers
         /\ hex \in covered
         /\ \E n \in GridNeighbors(hex) :
              /\ n \notin covered
              /\ n # cursor_pos
              /\ n \notin GridNeighbors(cursor_pos)

\* C8 as stated: no mine is a key of numbers and every stored value is in 1..6.
NumbersValuesOneToSix ==
    /\ mines \cap DOMAIN numbers = {}
    /\ \A hex \in DOMAIN numbers : numbers[hex] \in 1..6

\* C8 amended: no mine is a key of numbers and every stored value is in 0..5
\* (the map stores the count of adjacent mines minus one).
NumbersValuesZeroToFive ==
    /\ mines \cap DOMAIN numbers = {}
    /\ \A hex \in DOMAIN numbers : numbers[hex] \in 0..5

\* A cell whose six neighbours are all mines stores 5.
NumbersValuesZeroToFiveWitness ==
    \E hex \in DOMAIN numbers : NeighborMines(hex) = 6 /\ numbers[hex] = 5

\* C9 as stated: the keys of numbers are the non-mine cells with a mine
\* among their neighbours, each mapped to the count of those mines.
NumbersAreNeighborCounts ==
    /\ DOMAIN numbers = {hex \in entities : hex \notin mines /\ NeighborMines(hex) >= 1}
    /\ \A hex \in DOMAIN numbers : numbers[hex] = NeighborMines(hex)

\* C9 amended: the same keys, each mapped to the count of mines among its
\* neighbours minus one.
NumbersAreNeighborCountsMinusOne ==
    /\ DOMAIN numbers = {hex \in entities : hex \notin mines /\ NeighborMines(hex) >= 1}
    /\ \A hex \in DOMAIN numbers : numbers[hex] = NeighborMines(hex) - 1

\* The board of the scenario: one mine at (1,0); the origin has one adjacent
\* mine and stores 0.
NumbersAreNeighborCountsMinusOneWitness ==
    /\ mines = {<<1, 0>>}
    /\ <<0, 0>> \in DOMAIN numbers
    /\ numbers[<<0, 0>>] = 0

\* C10: two consecutive flag toggles (right button alone) on the same covered
\* cell give back the flagged set, and covered is the same after each.
ToggleFlagTwiceRestores ==
    \A hex \in covered :
      LET once  == handle_input(covered, flagged, mines, numbers, hex, {"Right"})
          twice == handle_input(once.covered, once.flagged, mines, numbers, hex, {"Right"})
      IN  /\ once.covered = covered
          /\ once.flagged # flagged
          /\ twice.covered = covered
          /\ twice.flagged = flagged

\* Two calls with the right button ended with no flag and nothing uncovered.
ToggleFlagTwiceRestoresWitness ==
    /\ frames = 2
    /\ buttons = {"Right"}
    /\ cursor_pos \in covered
    /\ flagged = {}
    /\ covered = entities

\* C11: a reveal (left button alone) of a covered, unflagged mine uncovers
\* that cell and nothing else, and the game goes on: with a mine uncovered, a
\* flag toggle on a covered cell still flips its flag and a reveal of a
\* covered, unflagged cell still uncovers it.
MineRevealIsNotTerminal ==
    [][HandleInputStep =>
         /\ (/\ buttons' = {"Left"}
             /\ cursor_pos \in mines
             /\ cursor_pos \in covered
             /\ cursor_pos \notin flagged)
            => (/\ covered' = covered \ {cursor_pos}
                /\ flagged' = flagged
                /\ visited' = {})
         /\ (/\ ~(mines \subseteq covered)
             /\ buttons' = {"Right"}
             /\ cursor_pos \in covered)
            => (/\ covered' = covered
                /\ flagged' = (flagged \ {cursor_pos}) \cup ({cursor_pos} \ flagged))
         /\ (/\ ~(mines \subseteq covered)
             /\ buttons' = {"Left"}
             /\ cursor_pos \in covered
             /\ cursor_pos \notin flagged)
            => (/\ cursor_pos \notin covered'
                /\ covered' \subseteq covered
                /\ flagged' = flagged)]_vars

\* A mine was uncovered in the first call and a cell was flagged in the second.
MineRevealIsNotTerminalWitness ==
    /\ frames = 2
    /\ buttons = {"Right"}
    /\ ~(mines \subseteq covered)
    /\ cursor_pos \in flagged

\* All pairs of coordinates between -n and n.
Box(n) == (-n..n) \X (-n..n)

\* C12: the cell set (the keys of entities, the initial covered set) has
\* 3R(R+1)+1 cells and holds a hex exactly if is_hex_within_grid accepts it;
\* and for every radius up to MaxRadius the hexagon of that radius has
\* 3R(R+1)+1 cells, which are the hexes of cube length <= R.
CellSetIsHexagon ==
    /\ Cardinality(entities) = 3 * GRID_RADIUS * (GRID_RADIUS + 1) + 1
    /\ \A hex \in Box(GRID_RADIUS + 1) : hex \in entities <=> is_hex_within_grid(hex)
    /\ frames = 0 /\ buffer = << >> => covered = entities
    /\ frames = 0 =>
         \A radius \in 0..MaxRadius :
           LET cells == hexagon(radius)
           IN  /\ Cardinality(cells) = 3 * radius * (radius + 1) + 1
               /\ \A hex \in Box(radius + 1) : hex \in cells <=> ulength(hex) <= radius

\* The grid just after setup, with more than the origin in it.
CellSetIsHexagonWitness ==
    /\ frames = 0
    /\ covered = entities
    /\ <<0, 0>> \in entities
    /\ Cardinality(entities) = 3 * GRID_RADIUS * (GRID_RADIUS + 1) + 1

\* The orders in which the six neighbours can be enumerated that are tried:
\* the rotations of the ring and their reversals.
RingOrders ==
    {[i \in 1..6 |-> ((i - 1 + shift) % 6) + 1] : shift \in 0..5}
      \cup {[i \in 1..6 |-> 6 - ((i - 1 + shift) % 6)] : shift \in 0..5}

Reverse(seq) == [i \in 1..Len(seq) |-> seq[Len(seq) + 1 - i]]

\* The pass of the flood fill with the neighbours taken in the order `order`.
RECURSIVE ExpandOrdered(_, _, _, _, _, _)
ExpandOrdered(numberKeys, vis, buf, k, out, order) ==
    IF k >= 6 * Len(buf) THEN [visited |-> vis, buffer |-> out]
    ELSE LET neighbor == ring1(buf[(k \div 6) + 1])[order[(k % 6) + 1]]
         IN  IF ulength(neighbor) > GRID_RADIUS \/ neighbor \in vis
             THEN ExpandOrdered(numberKeys, vis, buf, k + 1, out, order)
             ELSE ExpandOrdered(numberKeys, vis \cup {neighbor}, buf, k + 1,
                                IF neighbor \in numberKeys THEN out ELSE Append(out, neighbor),
                                order)

\* The flood fill with the neighbours taken in the order `order` and, when
\* `backwards`, the frontier taken from its end.
RECURSIVE FloodOrdered(_, _, _, _, _)
FloodOrdered(numberKeys, vis, buf, order, backwards) ==
    IF buf = << >> THEN vis
    ELSE LET r == ExpandOrdered(numberKeys, vis, IF backwards THEN Reverse(buf) ELSE buf,
                                0, << >>, order)
         IN  FloodOrdered(numberKeys, r.visited, r.buffer, order, backwards)

\* C13: the visited set of a finished flood fill is a function of the board
\* and the seed alone: it is the set found with any tried order of the
\* neighbours and either order of the frontier.
FloodIsOrderIndependent ==
    frames = 0 /\ buffer = << >> /\ pushed # << >> =>
      \A order \in RingOrders : \A backwards \in BOOLEAN :
        FloodOrdered(DOMAIN numbers, {cursor_pos}, <<cursor_pos>>, order, backwards) = visited

\* A finished flood fill that took more than one pass and met a number.
FloodIsOrderIndependentWitness ==
    /\ frames = 0
    /\ buffer = << >>
    /\ Len(pushed) >= 3
    /\ visited \cap DOMAIN numbers # {}

NoDuplicates(seq) == Cardinality(Range(seq)) = Len(seq)

\* C14: the flood fill loop ends (the buffer becomes empty), visited only
\* grows, and no hex is put in the buffer twice.
FloodFillTerminates ==
    /\ <>(buffer = << >>)
    /\ [][visited \subseteq visited' /\ NoDuplicates(pushed')]_vars

\* The loop ended after several passes.
FloodFillTerminatesWitness ==
    /\ buffer = << >>
    /\ Len(pushed) >= 4
    /\ Range(pushed) \subseteq visited

\* The cells reached from S by paths of adjacent cells of the board that are
\* not in numbers.
RECURSIVE BlankReach(_)
BlankReach(S) ==
    LET more == {n \in entities : n \notin DOMAIN numbers /\ \E hex \in S : n \in GridNeighbors(hex)}
    IN  IF more \subseteq S THEN S ELSE BlankReach(S \cup more)

\* The reference set: the seed, the cells reached from it, and the
\* neighbours of those on the board.
FloodReference(seed) ==
    LET reach == BlankReach({seed})
    IN  reach \cup UNION {GridNeighbors(hex) : hex \in reach}

\* C15: the visited set of the flood fill of a reveal is the reference set of
\* its seed.
FloodEqualsReference ==
    [][HandleInputStep /\ visited' # {} => visited' = FloodReference(cursor_pos)]_vars

\* A flood fill visited a numbered cell and did not expand it.
FloodEqualsReferenceWitness ==
    /\ mines # {}
    /\ \E hex \in visited \cap DOMAIN numbers : ~(GridNeighbors(hex) \subseteq visited)

BoardIsNeverMutated ==
    [][/\ entities' = entities
       /\ mines' = mines
       /\ numbers' = numbers
       /\ HandleInputStep /\ buttons' = {"Right"} => covered' = covered
       /\ HandleInputStep /\ buttons' = {"Left"} => flagged' = flagged]_vars

\* A reveal flood filled over a flagged cell, which is still flagged.
BoardIsNeverMutatedWitness ==
    /\ buttons = {"Left"}
    /\ visited \cap flagged # {}
    /\ frames >= 2

\* C18: with both buttons pressed in one call on a covered cell, the flag is
\* toggled first and the reveal sees the result: an unflagged cell ends
\* flagged and covered, a flagged cell ends unflagged and uncovered.
ToggleThenReveal ==
    [][HandleInputStep /\ buttons' = {"Left", "Right"} /\ cursor_pos \in covered =>
         /\ cursor_pos \notin flagged
            => flagged' = flagged \cup {cursor_pos} /\ covered' = covered
         /\ cursor_pos \in flagged
            => flagged' = flagged \ {cursor_pos} /\ cursor_pos \notin covered']_vars

\* The first call had both buttons pressed on an unflagged cell: it is
\* flagged and nothing is uncovered.
ToggleThenRevealWitness ==
    /\ frames = 1
    /\ buttons = {"Left", "Right"}
    /\ flagged = {cursor_pos}
    /\ covered = entities

\* C19: every stored number is an index of the sprite array, the sprite at
\* that index shows the count of adjacent mines, and the hovered cell and
\* every visited cell are keys of entities.
LookupsNeverFail ==
    /\ \A hex \in DOMAIN numbers :
         /\ numbers[hex] \in DOMAIN NumberSprites
         /\ NumberSprites[numbers[hex]] = NeighborMines(hex)
    /\ NumberSprites[0] = 1
    /\ visited \subseteq entities
    /\ cursor_pos # None => cursor_pos \in entities

\* A flood fill visited a numbered cell with two adjacent mines (index 1).
LookupsNeverFailWitness ==
    \E hex \in visited \cap DOMAIN numbers : numbers[hex] = 1

====
